---- MODULE Spec2Model ----
(***************************************************************************)
(* Model of streamlit_app.py: the upload pipeline of the financial panel.  *)
(*   read file -> parse_pdf (PDF only) -> parse_csv -> sign adjustment ->  *)
(*   sidebar filter.                                                       *)
(* Text is a sequence of code points, each written as a one-token string;  *)
(* precomposed accented letters and combining marks have named tokens      *)
(* ("i_acute" is U+00ED, "acute" is U+0301, ...).                          *)
(* Amounts are counted in hundredths (150,00 is 15000).                    *)
(***************************************************************************)
EXTENDS Integers, Sequences, FiniteSets, TLC

VARIABLES pc, kind, text, idx, current_date, records, df_in, df, canon, df_filtered, sel, msg

vars == <<pc, kind, text, idx, current_date, records, df_in, df, canon, df_filtered, sel, msg>>

(***************************************************************************)
(* Bounds of the explored inputs.                                          *)
(***************************************************************************)
MaxRows == 2
MaxLines == 4

(***************************************************************************)
(* Characters and str methods.                                             *)
(***************************************************************************)
UpperChars == <<"A", "B", "C", "D", "E", "F", "G", "H", "I", "J", "K", "L", "M", "N", "O", "P", "Q", "R", "S", "T", "U", "V", "W", "X", "Y", "Z">>
LowerChars == <<"a", "b", "c", "d", "e", "f", "g", "h", "i", "j", "k", "l", "m", "n", "o", "p", "q", "r", "s", "t", "u", "v", "w", "x", "y", "z">>
Digits == {"0", "1", "2", "3", "4", "5", "6", "7", "8", "9"}
DigitSeq == <<"0", "1", "2", "3", "4", "5", "6", "7", "8", "9">>
Whitespace == {" ", "\t"}

\* unicodedata.normalize('NFKD', c) for one code point
Decompose(c) ==
  CASE c = "i_acute" -> <<"i", "acute">>
    [] c = "I_acute" -> <<"I", "acute">>
    [] c = "a_tilde" -> <<"a", "tilde">>
    [] c = "A_tilde" -> <<"A", "tilde">>
    [] c = "c_cedilla" -> <<"c", "cedilla">>
    [] c = "C_cedilla" -> <<"C", "cedilla">>
    [] OTHER -> <<c>>

\* unicodedata.combining(c) # 0
IsCombining(c) == c \in {"acute", "tilde", "cedilla"}

\* str.lower() for one code point (precomposed letters lower to precomposed)
LowerChar(c) ==
  IF \E i \in 1..Len(UpperChars) : UpperChars[i] = c
  THEN LowerChars[CHOOSE i \in 1..Len(UpperChars) : UpperChars[i] = c]
  ELSE CASE c = "I_acute" -> "i_acute"
         [] c = "A_tilde" -> "a_tilde"
         [] c = "C_cedilla" -> "c_cedilla"
         [] OTHER -> c

RECURSIVE NFKD(_)
NFKD(s) == IF s = <<>> THEN <<>> ELSE Decompose(Head(s)) \o NFKD(Tail(s))

RemoveCombining(s) == SelectSeq(s, LAMBDA c : ~IsCombining(c))

Lower(s) == [i \in 1..Len(s) |-> LowerChar(s[i])]

RECURSIVE LStrip(_)
LStrip(s) == IF s # <<>> /\ Head(s) \in Whitespace THEN LStrip(Tail(s)) ELSE s

RECURSIVE RStrip(_)
RStrip(s) ==
  IF s # <<>> /\ s[Len(s)] \in Whitespace THEN RStrip(SubSeq(s, 1, Len(s) - 1)) ELSE s

Strip(s) == RStrip(LStrip(s))

\* the body of the loop of normalize_columns, also the lambda of the sign block
NormalizeLabel(s) == Strip(Lower(RemoveCombining(NFKD(s))))

normalize_columns(columns) == [i \in 1..Len(columns) |-> NormalizeLabel(columns[i])]

\* substring test: needle in s
Contains(s, needle) ==
  \E i \in 1..(Len(s) - Len(needle) + 1) : SubSeq(s, i, i + Len(needle) - 1) = needle

(***************************************************************************)
(* Numbers and dates.                                                      *)
(***************************************************************************)
DigitVal(c) == (CHOOSE i \in 1..10 : DigitSeq[i] = c) - 1

RECURSIVE DigitsVal(_)
DigitsVal(s) ==
  IF s = <<>> THEN 0 ELSE DigitsVal(SubSeq(s, 1, Len(s) - 1)) * 10 + DigitVal(s[Len(s)])

AllDigits(s) == \A i \in 1..Len(s) : s[i] \in Digits

Count(s, c) == Cardinality({i \in 1..Len(s) : s[i] = c})

\* float(s) succeeds; s holds digits and dots only, or a leading minus sign
FloatOk(s) ==
  LET u == IF s # <<>> /\ Head(s) = "-" THEN Tail(s) ELSE s
  IN  /\ \A i \in 1..Len(u) : u[i] \in Digits \cup {"."}
      /\ Count(u, ".") <= 1
      /\ \E i \in 1..Len(u) : u[i] \in Digits

\* float(s) in hundredths
FloatVal(s) ==
  LET neg == s # <<>> /\ Head(s) = "-"
      u == IF neg THEN Tail(s) ELSE s
      dot == IF Count(u, ".") = 0 THEN Len(u) + 1 ELSE CHOOSE i \in 1..Len(u) : u[i] = "."
      ip == SubSeq(u, 1, dot - 1)
      fp == SubSeq(u, dot + 1, Len(u)) \o <<"0", "0">>
      mag == DigitsVal(ip) * 100 + DigitsVal(SubSeq(fp, 1, 2))
  IN  IF neg THEN 0 - mag ELSE mag

Abs(n) == IF n < 0 THEN 0 - n ELSE n

IsLeap(y) == (y % 4 = 0 /\ y % 100 # 0) \/ y % 400 = 0

DaysInMonth(y, m) ==
  IF m = 2 THEN (IF IsLeap(y) THEN 29 ELSE 28)
  ELSE IF m \in {4, 6, 9, 11} THEN 30 ELSE 31

\* the regular expression ^(\d{2}/\d{2}/\d{4})$
DateShape(s) ==
  /\ Len(s) = 10
  /\ s[3] = "/" /\ s[6] = "/"
  /\ AllDigits(SubSeq(s, 1, 2)) /\ AllDigits(SubSeq(s, 4, 5)) /\ AllDigits(SubSeq(s, 7, 10))

None == [t |-> "none"]
NaN == [t |-> "nan"]
NaT == [t |-> "nat"]
DateOf(y, m, d) == [t |-> "date", d |-> <<y, m, d>>]
Num(n) == [t |-> "num", n |-> n]
Str(s) == [t |-> "str", s |-> s]

\* datetime.strptime(s, '%d/%m/%Y') on a string of the date shape; None stands
\* for the ValueError
strptime(s) ==
  LET d == DigitsVal(SubSeq(s, 1, 2))
      m == DigitsVal(SubSeq(s, 4, 5))
      y == DigitsVal(SubSeq(s, 7, 10))
  IN  IF y >= 1 /\ m \in 1..12 /\ d >= 1 /\ d <= DaysInMonth(y, m)
      THEN DateOf(y, m, d) ELSE None

RECURSIVE ZeroPad(_, _)
ZeroPad(n, width) ==
  IF width = 0 THEN <<>> ELSE ZeroPad(n \div 10, width - 1) \o <<DigitSeq[(n % 10) + 1]>>

\* date.strftime('%d/%m/%Y')
\* (four-digit years, as all the dates of the uploads explored have)
strftime(dt) ==
  ZeroPad(dt.d[3], 2) \o <<"/">> \o ZeroPad(dt.d[2], 2) \o <<"/">> \o ZeroPad(dt.d[1], 4)


(***************************************************************************)
(* parse_pdf: one line of the loop over text.splitlines().                 *)
(***************************************************************************)
NumChars == Digits \cup {".", ","}

\* first index at or after i holding no whitespace (Len + 1 when there is none)
RECURSIVE SkipSpace(_, _)
SkipSpace(s, i) == IF i <= Len(s) /\ s[i] \in Whitespace THEN SkipSpace(s, i + 1) ELSE i

\* last index of the run of NumChars that starts at i
RECURSIVE RunEnd(_, _)
RunEnd(s, i) == IF i + 1 <= Len(s) /\ s[i + 1] \in NumChars THEN RunEnd(s, i + 1) ELSE i

\* R\$\s*([\d\.,]+) matches with the R at index i
ValMatchAt(s, i) ==
  /\ i + 1 <= Len(s) /\ s[i] = "R" /\ s[i + 1] = "$"
  /\ SkipSpace(s, i + 2) <= Len(s)
  /\ s[SkipSpace(s, i + 2)] \in NumChars

\* re.search: start of the leftmost match, 0 when there is none
ValMatchStart(s) ==
  IF \E i \in 1..Len(s) : ValMatchAt(s, i)
  THEN CHOOSE i \in 1..Len(s) : ValMatchAt(s, i) /\ \A j \in 1..(i - 1) : ~ValMatchAt(s, j)
  ELSE 0

\* val_match.group(1)
ValMatchGroup(s) ==
  LET g == SkipSpace(s, ValMatchStart(s) + 2) IN SubSeq(s, g, RunEnd(s, g))

\* .replace('.', '').replace(',', '.')
ToDecimalText(g) ==
  LET kept == SelectSeq(g, LAMBDA c : c # ".")
  IN  [i \in 1..Len(kept) |-> IF kept[i] = "," THEN "." ELSE kept[i]]

NA == <<"N", "/", "A">>
Entrada == <<"E", "n", "t", "r", "a", "d", "a">>
Saida == <<"S", "a", "i_acute", "d", "a">>

\* the condition of line 57
IsDateLine(line) == DateShape(line) /\ ~Contains(line, <<"R", "$">>)

\* current_date after the line
\* (variant: a date line that fails to parse keeps the date before it)
ScanDateMutKeepStale(line, cur) ==
  IF IsDateLine(line)
  THEN (IF strptime(line) = None THEN cur ELSE strptime(line))
  ELSE cur
ScanDate(line, cur) == IF IsDateLine(line) THEN strptime(line) ELSE cur

\* the record appended for the line, <<>> when none is
\* (variant: a numeral that does not convert counts as zero)
ScanRecordMutNoTry(line, cur) ==
  IF IsDateLine(line) \/ ValMatchStart(line) = 0 \/ cur = None
  THEN <<>>
  ELSE LET num == ToDecimalText(ValMatchGroup(line))
           valor == IF FloatOk(num) THEN FloatVal(num) ELSE 0
           d == Strip(SubSeq(line, 1, ValMatchStart(line) - 1))
       IN  <<[data |-> Str(strftime(cur)),
              descricao |-> Str(IF d = <<>> THEN NA ELSE d),
              valor |-> Num(valor),
              tipo |-> Str(IF valor > 0 THEN Entrada ELSE Saida),
              categoria |-> Str(NA)]>>
ScanRecord(line, cur) ==
  IF IsDateLine(line) \/ ValMatchStart(line) = 0 \/ cur = None
  THEN <<>>
  ELSE LET num == ToDecimalText(ValMatchGroup(line))
       IN  IF ~FloatOk(num)
           THEN <<>>
           ELSE LET valor == FloatVal(num)
                    d == Strip(SubSeq(line, 1, ValMatchStart(line) - 1))
                IN  <<[data |-> Str(strftime(cur)),
                       descricao |-> Str(IF d = <<>> THEN NA ELSE d),
                       valor |-> Num(valor),
                       tipo |-> Str(IF valor > 0 THEN Entrada ELSE Saida),
                       categoria |-> Str(NA)]>>

(***************************************************************************)
(* Tables: the column labels and the rows, each row holding one cell per   *)
(* column.                                                                 *)
(***************************************************************************)
KData == <<"d", "a", "t", "a">>
KValor == <<"v", "a", "l", "o", "r">>
KDescricao == <<"d", "e", "s", "c", "r", "i", "c", "a", "o">>
KTipo == <<"t", "i", "p", "o">>
KCategoria == <<"c", "a", "t", "e", "g", "o", "r", "i", "a">>

EmptyFrame == [columns |-> <<>>, rows |-> <<>>]

HasCol(d, k) == \E i \in 1..Len(d.columns) : d.columns[i] = k
ColIdx(d, k) == CHOOSE i \in 1..Len(d.columns) : d.columns[i] = k
Cell(d, r, k) == d.rows[r][ColIdx(d, k)]
NRows(d) == Len(d.rows)

\* df[k] = col, the column added at the end when it is new
SetCol(d, k, col) ==
  IF HasCol(d, k)
  THEN [d EXCEPT !.rows = [r \in 1..Len(d.rows) |->
                             [d.rows[r] EXCEPT ![ColIdx(d, k)] = col[r]]]]
  ELSE [columns |-> Append(d.columns, k),
        rows |-> [r \in 1..Len(d.rows) |-> Append(d.rows[r], col[r])]]

\* a column with the same value in every row
Fill(d, c) == [r \in 1..Len(d.rows) |-> c]

\* pd.DataFrame(records): the keys of the dicts in insertion order, no column
\* at all for an empty list
\* (variant: the five columns whatever the list holds)
DataFrameMutFixedColumns(recs) ==
  [columns |-> <<KData, KDescricao, KValor, KTipo, KCategoria>>,
   rows |-> [r \in 1..Len(recs) |->
               <<recs[r].data, recs[r].descricao, recs[r].valor, recs[r].tipo,
                 recs[r].categoria>>]]
DataFrame(recs) ==
  IF recs = <<>>
  THEN EmptyFrame
  ELSE [columns |-> <<KData, KDescricao, KValor, KTipo, KCategoria>>,
        rows |-> [r \in 1..Len(recs) |->
                    <<recs[r].data, recs[r].descricao, recs[r].valor, recs[r].tipo,
                      recs[r].categoria>>]]


(***************************************************************************)
(* parse_csv.                                                              *)
(***************************************************************************)
\* pd.to_datetime(cell, dayfirst=True, errors='coerce')
to_datetime(c) ==
  IF c.t = "date" THEN c
  ELSE IF c.t = "str" /\ DateShape(Strip(c.s)) /\ strptime(Strip(c.s)) # None
       THEN strptime(Strip(c.s))
       ELSE NaT

\* pd.to_numeric(cell, errors='coerce') followed by fillna(0.0)
to_numeric(c) ==
  IF c.t = "num" THEN c
  ELSE IF c.t = "str" /\ FloatOk(Strip(c.s)) THEN Num(FloatVal(Strip(c.s)))
       ELSE Num(0)

\* the lambda of line 38 raises TypeError on a str cell
SignLambdaRaises(c) == c.t = "str"
SignLambda(c) == Str(IF c.t = "num" /\ c.n > 0 THEN Entrada ELSE Saida)

\* lines 34-40: the columns added when absent
\* (variant: tipo derived from the sign even when the column exists)
EnsureColumnsMutRederive(d) ==
  LET d1 == IF HasCol(d, KDescricao) THEN d ELSE SetCol(d, KDescricao, Fill(d, Str(NA)))
      d2 == SetCol(d1, KTipo, [r \in 1..NRows(d1) |-> SignLambda(Cell(d1, r, KValor))])
  IN  IF HasCol(d2, KCategoria) THEN d2 ELSE SetCol(d2, KCategoria, Fill(d2, Str(NA)))
EnsureColumns(d) ==
  LET d1 == IF HasCol(d, KDescricao) THEN d ELSE SetCol(d, KDescricao, Fill(d, Str(NA)))
      d2 == IF HasCol(d1, KTipo) THEN d1
            ELSE SetCol(d1, KTipo, [r \in 1..NRows(d1) |-> SignLambda(Cell(d1, r, KValor))])
  IN  IF HasCol(d2, KCategoria) THEN d2 ELSE SetCol(d2, KCategoria, Fill(d2, Str(NA)))

\* lines 42-43
ConvertTypes(d) ==
  LET d1 == SetCol(d, KData, [r \in 1..NRows(d) |-> to_datetime(Cell(d, r, KData))])
  IN  SetCol(d1, KValor, [r \in 1..NRows(d1) |-> to_numeric(Cell(d1, r, KValor))])

\* the missing column st.error names before st.stop(), <<>> when none is
\* (variant: valor looked for before data)
MissingColumnMutValorFirst(columns) ==
  IF ~(\E i \in 1..Len(columns) : columns[i] = KValor) THEN KValor
  ELSE IF ~(\E i \in 1..Len(columns) : columns[i] = KData) THEN KData
  ELSE <<>>
MissingColumn(columns) ==
  IF ~(\E i \in 1..Len(columns) : columns[i] = KData) THEN KData
  ELSE IF ~(\E i \in 1..Len(columns) : columns[i] = KValor) THEN KValor
  ELSE <<>>

\* parse_csv(df): how it ends ("stop", "raise" or "ok"), the message shown
\* and the frame returned
parse_csv(d) ==
  LET d0 == [d EXCEPT !.columns = normalize_columns(d.columns)]
  IN  IF MissingColumn(d0.columns) # <<>>
      THEN [status |-> "stop", msg |-> MissingColumn(d0.columns), df |-> d0]
      ELSE IF ~HasCol(d0, KTipo) /\ \E r \in 1..NRows(d0) : SignLambdaRaises(Cell(d0, r, KValor))
           THEN [status |-> "raise", msg |-> <<>>, df |-> d0]
           ELSE [status |-> "ok", msg |-> <<>>, df |-> ConvertTypes(EnsureColumns(d0))]

(***************************************************************************)
(* Lines 106-115: the sign of valor follows tipo.                          *)
(***************************************************************************)
\* astype(str)
astype_str(c) == IF c.t = "str" THEN c.s ELSE <<"n", "a", "n">>

KSaida == <<"s", "a", "i", "d", "a">>
KEntradaOpt == <<"e", "n", "t", "r", "a", "d", "a">>
All == <<"A", "l", "l">>

\* the lambda of line 113
\* (variant: only saidas are rewritten)
SignedValorMutKeepSign(valor, tipo) ==
  IF tipo = KSaida THEN 0 - Abs(valor) ELSE valor
SignedValor(valor, tipo) ==
  IF tipo = KSaida THEN 0 - Abs(valor) ELSE Abs(valor)

AdjustSign(d) ==
  LET d1 == SetCol(d, KTipo, [r \in 1..NRows(d) |-> Str(NormalizeLabel(astype_str(Cell(d, r, KTipo))))])
  IN  SetCol(d1, KValor,
             [r \in 1..NRows(d1) |->
                Num(SignedValor(Cell(d1, r, KValor).n, Cell(d1, r, KTipo).s))])

(***************************************************************************)
(* Lines 119-128: the sidebar filter.                                      *)
(***************************************************************************)
DateLE(a, b) ==
  \/ a[1] < b[1]
  \/ a[1] = b[1] /\ a[2] < b[2]
  \/ a[1] = b[1] /\ a[2] = b[2] /\ a[3] <= b[3]

tipo_options == {All, KEntradaOpt, KSaida}

\* df['categoria'].unique()
Categories(d) == {Cell(d, r, KCategoria) : r \in 1..NRows(d)}

\* sorted() raises TypeError when a float NaN meets a str
SortedRaises(cats) == NaN \in cats /\ \E c \in cats : c.t = "str"

cat_options(d) == {Str(All)} \cup Categories(d)

\* the mask of lines 125-127 for row r
\* (variant: a missing date compares as inside any interval)
MaskMutNaTFirst(d, r, s) ==
  /\ Cell(d, r, KData) = NaT
     \/ (Cell(d, r, KData) # NaT /\ DateLE(s.start, Cell(d, r, KData).d)
         /\ DateLE(Cell(d, r, KData).d, s.end))
  /\ s.cat # Str(All) => (Cell(d, r, KCategoria) # NaN /\ Cell(d, r, KCategoria) = s.cat)
  /\ s.tipo # All => Cell(d, r, KTipo).s = s.tipo
Mask(d, r, s) ==
  /\ Cell(d, r, KData) # NaT
  /\ DateLE(s.start, Cell(d, r, KData).d)
  /\ DateLE(Cell(d, r, KData).d, s.end)
  /\ s.cat # Str(All) => (Cell(d, r, KCategoria) # NaN /\ Cell(d, r, KCategoria) = s.cat)
  /\ s.tipo # All => Cell(d, r, KTipo).s = s.tipo

\* df[mask]
RECURSIVE SelectRows(_, _, _)
SelectRows(d, s, r) ==
  IF r > NRows(d) THEN <<>>
  ELSE (IF Mask(d, r, s) THEN <<d.rows[r]>> ELSE <<>>) \o SelectRows(d, s, r + 1)

Filtered(d, s) == [columns |-> d.columns, rows |-> SelectRows(d, s, 1)]


(***************************************************************************)
(* The uploads explored.                                                   *)
(***************************************************************************)
\* header rows: the label of each column and the field its cells are drawn from
HeaderPool ==
  { <<[name |-> <<"D", "a", "t", "a">>, field |-> "data"], [name |-> <<"V", "a", "l", "o", "r">>, field |-> "valor"]>>,
    <<[name |-> <<"D", "A", "T", "A">>, field |-> "data"], [name |-> <<" ", "V", "A", "L", "O", "R">>, field |-> "valor"],
      [name |-> <<"D", "e", "s", "c", "r", "i", "c_cedilla", "a_tilde", "o">>, field |-> "descricao"],
      [name |-> <<"T", "i", "p", "o", " ">>, field |-> "tipo"],
      [name |-> <<"C", "a", "t", "e", "g", "o", "r", "i", "a">>, field |-> "categoria"]>>,
    <<[name |-> <<"d", "a", "t", "a">>, field |-> "data"], [name |-> <<"v", "a", "l", "o", "r">>, field |-> "valor"],
      [name |-> <<"D", "E", "S", "C", "R", "I", "C_cedilla", "A_tilde", "O">>, field |-> "descricao"],
      [name |-> <<"c", "a", "t", "e", "g", "o", "r", "i", "a">>, field |-> "categoria"]>>,
    <<[name |-> <<"d", "a", "t", "a">>, field |-> "data"], [name |-> <<"v", "a", "l", "o", "r">>, field |-> "valor"],
      [name |-> <<"t", "i", "p", "o">>, field |-> "tipo"]>>,
    <<[name |-> <<"d", "a", "t", "a">>, field |-> "data"], [name |-> <<"d", "e", "s", "c", "r", "i", "c", "a", "o">>, field |-> "descricao"]>>,
    <<[name |-> <<"v", "a", "l", "o", "r">>, field |-> "valor"], [name |-> <<"t", "i", "p", "o">>, field |-> "tipo"]>>,
    <<[name |-> <<"d", "e", "s", "c", "r", "i", "c", "a", "o">>, field |-> "descricao"]>> }

RowPool ==
  { [data |-> Str(<<"0", "1", "/", "0", "3", "/", "2", "0", "2", "4">>), valor |-> Num(15000), descricao |-> Str(<<"L", "u", "z">>),
     tipo |-> Str(<<"S", "a", "i_acute", "d", "a">>), categoria |-> Str(<<"C", "a", "s", "a">>)],
    [data |-> Str(<<"0", "3", "/", "0", "1", "/", "2", "0", "2", "4">>), valor |-> Num(0 - 5000), descricao |-> Str(<<"P", "i", "x">>),
     tipo |-> Str(<<"E", "N", "T", "R", "A", "D", "A">>), categoria |-> Str(<<"C", "a", "s", "a">>)],
    [data |-> Str(<<"3", "1", "/", "0", "2", "/", "2", "0", "2", "4">>), valor |-> Str(<<"a", "b", "c">>), descricao |-> NaN,
     tipo |-> Str(<<" ", "S", "A", "I", "D", "A", " ">>), categoria |-> NaN],
    [data |-> Str(<<"0", "2", "/", "0", "3", "/", "2", "0", "2", "4">>), valor |-> NaN, descricao |-> Str(<<"B", "a", "r">>),
     tipo |-> Str(<<"c", "r", "e", "d", "i", "t", "o">>), categoria |-> Str(<<"L", "a", "z", "e", "r">>)],
    [data |-> NaN, valor |-> Str(<<"1", "0">>), descricao |-> Str(<<"P", "i", "x">>),
     tipo |-> NaN, categoria |-> Str(<<"C", "a", "s", "a">>)],
    [data |-> Str(<<"0", "1", "/", "0", "3", "/", "2", "0", "2", "4">>), valor |-> Num(0), descricao |-> Str(<<"B", "a", "r">>),
     tipo |-> Str(<<"S", "A", "I_acute", "D", "A">>), categoria |-> Str(<<"L", "a", "z", "e", "r">>)] }

MakeTable(h, rs) ==
  [columns |-> [i \in 1..Len(h) |-> h[i].name],
   rows |-> [r \in 1..Len(rs) |-> [i \in 1..Len(h) |-> rs[r][h[i].field]]]]

LinePool ==
  { <<"0", "1", "/", "0", "3", "/", "2", "0", "2", "4">>, <<" ", "0", "3", "/", "0", "1", "/", "2", "0", "2", "4", " ">>, <<"3", "1", "/", "0", "2", "/", "2", "0", "2", "4">>,
    <<"S", "u", "p", "e", "r", "m", "e", "r", "c", "a", "d", "o", " ", "R", "$", " ", "1", "5", "0", ",", "0", "0">>, <<" ", "R", "$", "1", ".", "2", "3", "4", ",", "5", "6", " ", "o", "k">>, <<"C", "o", "n", "t", "a", " ", "R", "$", " ", "a", "b", "c">>,
    <<"X", " ", "R", "$", " ", "1", ",", "2", ",", "3">> }

DatePool == { <<2024, 1, 3>>, <<2024, 3, 1>> }

(***************************************************************************)
(* The script, top to bottom.                                              *)
(***************************************************************************)
Init ==
  /\ pc = "idle"
  /\ kind = "none"
  /\ text = <<>>
  /\ idx = 1
  /\ current_date = None
  /\ records = <<>>
  /\ df_in = EmptyFrame
  /\ df = EmptyFrame
  /\ canon = EmptyFrame
  /\ df_filtered = EmptyFrame
  /\ sel = <<>>
  /\ msg = <<>>

\* lines 90-98: a .csv, .xlsx or .xls file, read by pandas
\* (tables of one row or more; a file holding only the header row is not among
\* the uploads explored)
UploadTable ==
  /\ pc = "idle"
  /\ \E h \in HeaderPool, n \in 1..MaxRows :
       \E rs \in [1..n -> RowPool] : df' = MakeTable(h, rs)
  /\ pc' = "parse_csv"
  /\ kind' = "table"
  /\ UNCHANGED <<text, idx, current_date, records, df_in, canon, df_filtered, sel, msg>>

\* lines 99-100 and 48-53: a .pdf file, its text extracted by pdfplumber
UploadPdf ==
  /\ pc = "idle"
  /\ \E n \in 0..MaxLines : \E t \in [1..n -> LinePool] : text' = t
  /\ pc' = "parse_pdf"
  /\ kind' = "pdf"
  /\ idx' = 1
  /\ current_date' = None
  /\ records' = <<>>
  /\ UNCHANGED <<df_in, df, canon, df_filtered, sel, msg>>

\* lines 102-104: any other file name
UploadOther ==
  /\ pc = "idle"
  /\ pc' = "stopped"
  /\ kind' = "other"
  /\ msg' = <<"f", "o", "r", "m", "a", "t", "o">>
  /\ UNCHANGED <<text, idx, current_date, records, df_in, df, canon, df_filtered, sel>>

\* lines 54-77: one turn of the loop of parse_pdf
ParsePdfLine ==
  /\ pc = "parse_pdf"
  /\ idx <= Len(text)
  /\ current_date' = ScanDate(Strip(text[idx]), current_date)
  /\ records' = records \o ScanRecord(Strip(text[idx]), current_date)
  /\ idx' = idx + 1
  /\ UNCHANGED <<pc, kind, text, df_in, df, canon, df_filtered, sel, msg>>

\* line 78: parse_pdf returns
ParsePdfReturn ==
  /\ pc = "parse_pdf"
  /\ idx > Len(text)
  /\ df' = DataFrame(records)
  /\ pc' = "parse_csv"
  /\ UNCHANGED <<kind, text, idx, current_date, records, df_in, canon, df_filtered, sel, msg>>

\* lines 23-44, called at lines 92, 98 and 101
ParseCsv ==
  /\ pc = "parse_csv"
  /\ df_in' = df
  /\ LET res == parse_csv(df)
     IN  /\ df' = res.df
         /\ msg' = res.msg
         /\ pc' = CASE res.status = "stop" -> "stopped"
                    [] res.status = "raise" -> "raised"
                    [] OTHER -> "sign"
         /\ canon' = IF res.status = "ok" THEN res.df ELSE canon
  /\ UNCHANGED <<kind, text, idx, current_date, records, df_filtered, sel>>

\* lines 106-115
SignAdjust ==
  /\ pc = "sign"
  /\ df' = AdjustSign(df)
  /\ pc' = "filter"
  /\ UNCHANGED <<kind, text, idx, current_date, records, df_in, canon, df_filtered, sel, msg>>

\* line 121 raises
FilterRaise ==
  /\ pc = "filter"
  /\ SortedRaises(Categories(df))
  /\ pc' = "raised"
  /\ UNCHANGED <<kind, text, idx, current_date, records, df_in, df, canon, df_filtered, sel, msg>>

\* lines 119-128: the choices made in the sidebar and the filtered frame
\* (the date picker hands over start <= end)
ApplyFilter ==
  /\ pc = "filter"
  /\ ~SortedRaises(Categories(df))
  /\ \E start \in DatePool, end \in DatePool, c \in cat_options(df), t \in tipo_options :
       LET s == [start |-> start, end |-> end, cat |-> c, tipo |-> t]
       IN  /\ DateLE(start, end)
           /\ sel' = <<s>>
           /\ df_filtered' = Filtered(df, s)
  /\ pc' = "done"
  /\ UNCHANGED <<kind, text, idx, current_date, records, df_in, df, canon, msg>>

Next ==
  \/ UploadTable
  \/ UploadPdf
  \/ UploadOther
  \/ ParsePdfLine
  \/ ParsePdfReturn
  \/ ParseCsv
  \/ SignAdjust
  \/ FilterRaise
  \/ ApplyFilter

Spec == Init /\ [][Next]_vars


(***************************************************************************)
(* Properties.                                                             *)
(***************************************************************************)
\* parse_csv has returned a frame
Parsed == canon # EmptyFrame
\* the sign block has run
AfterSign == Parsed /\ pc \in {"filter", "done", "raised"}
\* parse_csv has been called and has ended
AfterParseCsv == pc \in {"stopped", "raised", "sign", "filter", "done"} /\ kind \in {"table", "pdf"}

\* the labels of the uploads that read as 'saida' without case, accents or
\* surrounding blanks
ExpenseLabels == { <<"S", "a", "i_acute", "d", "a">>, <<" ", "S", "A", "I", "D", "A", " ">>, <<"S", "A", "I_acute", "D", "A">>, <<"s", "a", "i", "d", "a">> }

\* C1: after the sign block every row labelled as an expense, whatever the
\* casing or accents of the label, holds minus the magnitude of its amount, and
\* every other row holds plus the magnitude; the label decides, not the sign
\* the amount came with.
C1_SignFollowsType ==
  AfterSign =>
    \A r \in 1..NRows(df) :
      LET label == astype_str(Cell(canon, r, KTipo))
          orig == Cell(canon, r, KValor).n
          now == Cell(df, r, KValor).n
      IN  /\ label \in ExpenseLabels => now = 0 - Abs(orig) /\ now <= 0
          /\ label \notin ExpenseLabels => now = Abs(orig) /\ now >= 0

C1_Witness ==
  /\ AfterSign
  /\ \E r \in 1..NRows(df) :
       /\ astype_str(Cell(canon, r, KTipo)) = <<"E", "N", "T", "R", "A", "D", "A">>
       /\ Cell(canon, r, KValor).n < 0
       /\ Cell(df, r, KValor).n > 0
  /\ \E r \in 1..NRows(df) :
       /\ astype_str(Cell(canon, r, KTipo)) = <<"S", "a", "i_acute", "d", "a">>
       /\ Cell(canon, r, KValor).n > 0
       /\ Cell(df, r, KValor).n < 0

\* C2: after the sign block every row's type is one of the two values the type
\* filter offers, so every row the sign rule treats as income (any label that
\* is not an expense label) is selected by the 'entrada' choice and every
\* other row by the 'saida' choice.
C2_TypeIsEnumerated ==
  AfterSign =>
    \A r \in 1..NRows(df) :
      /\ Cell(df, r, KTipo).s \in {KEntradaOpt, KSaida}
      /\ Cell(df, r, KTipo).s # KSaida => Cell(df, r, KTipo).s = KEntradaOpt


\* the lines parse_pdf has gone through, trimmed
Seen == idx - 1
LineAt(j) == Strip(text[j])
\* the last line before line j that has the shape DD/MM/YYYY, 0 when none has
LastDateLine(j) ==
  IF \E k \in 1..(j - 1) : DateShape(LineAt(k))
  THEN CHOOSE k \in 1..(j - 1) :
         DateShape(LineAt(k)) /\ \A m \in (k + 1)..(j - 1) : ~DateShape(LineAt(m))
  ELSE 0
\* that line names a day of the calendar
ValidDay(s) ==
  LET d == DigitsVal(SubSeq(s, 1, 2))
      m == DigitsVal(SubSeq(s, 4, 5))
      y == DigitsVal(SubSeq(s, 7, 10))
  IN  /\ y >= 1 /\ m >= 1 /\ m <= 12 /\ d >= 1
      /\ d <= (IF m = 2 THEN (IF IsLeap(y) THEN 29 ELSE 28)
               ELSE IF m \in {4, 6, 9, 11} THEN 30 ELSE 31)
\* the lines of the uploads whose currency numeral converts to a decimal,
\* with the amount and the description each reads as
AmountLines ==
  { [line |-> <<"S", "u", "p", "e", "r", "m", "e", "r", "c", "a", "d", "o", " ", "R", "$", " ", "1", "5", "0", ",", "0", "0">>, valor |-> 15000, descricao |-> <<"S", "u", "p", "e", "r", "m", "e", "r", "c", "a", "d", "o">>],
    [line |-> <<"R", "$", "1", ".", "2", "3", "4", ",", "5", "6", " ", "o", "k">>, valor |-> 123456, descricao |-> <<"N", "/", "A">>] }
IsAmountLine(s) == \E a \in AmountLines : a.line = s
AmountOf(s) == CHOOSE a \in AmountLines : a.line = s
\* line j is an amount line under a date line that names a day
Dated(j) ==
  /\ IsAmountLine(LineAt(j))
  /\ LastDateLine(j) # 0
  /\ ValidDay(LineAt(LastDateLine(j)))
DatedLines == {j \in 1..Seen : Dated(j)}
\* the i-th of them in line order
NthDated(i) == CHOOSE j \in DatedLines : Cardinality({k \in DatedLines : k <= j}) = i

\* C3: at every point of the scan the records are, in line order, exactly the
\* amount lines that follow a date line naming a day of the calendar, each
\* with the date of the last date line before it; amount lines before any date
\* line, or after a date line that names no day and before the next one that
\* does, give no record, and neither does a date line.
C3_DateCursor ==
  pc = "parse_pdf" =>
    /\ Len(records) = Cardinality(DatedLines)
    /\ \A i \in 1..Len(records) :
         LET j == NthDated(i) IN
           /\ records[i].data = Str(LineAt(LastDateLine(j)))
           /\ records[i].valor = Num(AmountOf(LineAt(j)).valor)
           /\ records[i].descricao = Str(AmountOf(LineAt(j)).descricao)
    /\ Seen >= 1 =>
         (current_date # None <=>
            (LastDateLine(idx) # 0 /\ ValidDay(LineAt(LastDateLine(idx)))))

\* a record under the first date, then a date line that names no day, then an
\* amount line that gives no record
C3_Witness ==
  /\ kind = "pdf" /\ pc = "parse_pdf" /\ Seen = 4
  /\ Len(records) = 1
  /\ Dated(2)
  /\ DateShape(LineAt(3)) /\ ~ValidDay(LineAt(3))
  /\ IsAmountLine(LineAt(4))

\* the lines of the uploads whose currency numeral is malformed
MalformedLines == { <<"C", "o", "n", "t", "a", " ", "R", "$", " ", "a", "b", "c">>, <<"X", " ", "R", "$", " ", "1", ",", "2", ",", "3">> }

\* C4: a turn of the loop over a line with a malformed numeral adds no record,
\* leaves current_date alone, raises nothing and moves on to the next line.
C4_MalformedSkipped ==
  [][(pc = "parse_pdf" /\ idx <= Len(text) /\ LineAt(idx) \in MalformedLines) =>
       /\ records' = records
       /\ current_date' = current_date
       /\ pc' = "parse_pdf"
       /\ idx' = idx + 1]_vars

\* a malformed line under a valid date, and a later line that gave a record
C4_Witness ==
  /\ kind = "pdf" /\ pc = "parse_pdf"
  /\ \E j \in 1..Seen :
       /\ LineAt(j) \in MalformedLines
       /\ LastDateLine(j) # 0 /\ ValidDay(LineAt(LastDateLine(j)))
       /\ \E k \in (j + 1)..Seen : Dated(k)


\* the labels of the uploads that name the column 'data', and those that name
\* the column 'valor'
DataLabels == { <<"D", "a", "t", "a">>, <<"D", "A", "T", "A">>, <<"d", "a", "t", "a">> }
ValorLabels == { <<"V", "a", "l", "o", "r">>, <<" ", "V", "A", "L", "O", "R">>, <<"v", "a", "l", "o", "r">> }
LacksData == \A i \in 1..Len(df_in.columns) : df_in.columns[i] \notin DataLabels
LacksValor == \A i \in 1..Len(df_in.columns) : df_in.columns[i] \notin ValorLabels

\* C5: a table without the column 'data', or with it and without the column
\* 'valor', stops the run with the message naming that column ('data' first):
\* no frame is returned, the rows are left as read and no later step runs. A
\* table with both columns is never stopped, whichever other columns it lacks.
C5_MissingRequiredColumn ==
  AfterParseCsv =>
    /\ LacksData => pc = "stopped" /\ msg = KData
    /\ (~LacksData /\ LacksValor) => pc = "stopped" /\ msg = KValor
    /\ (~LacksData /\ ~LacksValor) => pc # "stopped"
    /\ pc = "stopped" =>
         /\ ~Parsed /\ sel = <<>> /\ df_filtered = EmptyFrame
         /\ df.rows = df_in.rows
         /\ ~ENABLED Next

\* a table with neither column, stopped on 'data'
C5_Witness ==
  /\ kind = "table" /\ pc = "stopped" /\ msg = KData
  /\ LacksData /\ LacksValor /\ NRows(df_in) >= 1

\* C6: a table with both required columns goes through parse_csv without an
\* exception whatever its cells hold: the frame returned has the rows of the
\* table in the same number, every date a date or the missing date and every
\* amount a number.
C6_NoUncaughtException ==
  (AfterParseCsv /\ ~LacksData /\ ~LacksValor) =>
    /\ Parsed
    /\ NRows(canon) = NRows(df_in)
    /\ \A r \in 1..NRows(canon) :
         /\ Cell(canon, r, KData).t \in {"date", "nat"}
         /\ Cell(canon, r, KValor).t = "num"

\* C7: every row parse_csv returns has a description, a category and a type:
\* 'N/A' stands for a description or category whose column is absent or whose
\* cell is blank.
C7_AllFieldsPopulated ==
  Parsed =>
    \A r \in 1..NRows(canon) :
      /\ Cell(canon, r, KDescricao) # NaN
      /\ Cell(canon, r, KCategoria) # NaN
      /\ Cell(canon, r, KTipo) # NaN

\* the column of the table read that normalizes to k, 0 when it has none
InCol(k) ==
  IF \E i \in 1..Len(df_in.columns) : NormalizeLabel(df_in.columns[i]) = k
  THEN CHOOSE i \in 1..Len(df_in.columns) : NormalizeLabel(df_in.columns[i]) = k
  ELSE 0

\* C8: parse_csv applied to a frame it returned gives that frame back, rows,
\* order and fields; a type the table supplied is the type returned; and the
\* frame returned for the records of parse_pdf holds those records, the date
\* text read back as the day it was written from.
C8_Idempotent ==
  (Parsed /\ pc = "sign") =>
    /\ parse_csv(canon) = [status |-> "ok", msg |-> <<>>, df |-> canon]
    /\ InCol(KTipo) # 0 =>
         \A r \in 1..NRows(canon) : Cell(canon, r, KTipo) = df_in.rows[r][InCol(KTipo)]
    /\ kind = "pdf" =>
         /\ NRows(canon) = Len(records)
         /\ \A r \in 1..Len(records) :
              /\ Cell(canon, r, KData).t = "date"
              /\ ZeroPad(Cell(canon, r, KData).d[3], 2) = SubSeq(records[r].data.s, 1, 2)
              /\ ZeroPad(Cell(canon, r, KData).d[2], 2) = SubSeq(records[r].data.s, 4, 5)
              /\ ZeroPad(Cell(canon, r, KData).d[1], 4) = SubSeq(records[r].data.s, 7, 10)
              /\ Cell(canon, r, KDescricao) = records[r].descricao
              /\ Cell(canon, r, KValor) = records[r].valor
              /\ Cell(canon, r, KTipo) = records[r].tipo
              /\ Cell(canon, r, KCategoria) = records[r].categoria

\* a table whose type column says income for a negative amount and gives a
\* numeral as text in another row
C8_Witness ==
  /\ Parsed /\ pc = "sign" /\ kind = "table" /\ InCol(KTipo) # 0
  /\ \E r \in 1..NRows(canon) :
       Cell(canon, r, KTipo) = Str(<<"E", "N", "T", "R", "A", "D", "A">>) /\ Cell(canon, r, KValor).n < 0
  /\ \E r \in 1..NRows(canon) :
       df_in.rows[r][InCol(KValor)] = Str(<<"1", "0">>) /\ Cell(canon, r, KValor) = Num(1000)

\* row r of the adjusted frame meets the choices of the sidebar
Meets(r) ==
  LET s == sel[1]
      day == Cell(df, r, KData)
  IN  /\ day.t = "date"
      /\ ~(day.d[1] < s.start[1])
      /\ day.d[1] = s.start[1] => ~(day.d[2] < s.start[2])
      /\ (day.d[1] = s.start[1] /\ day.d[2] = s.start[2]) => ~(day.d[3] < s.start[3])
      /\ ~(s.end[1] < day.d[1])
      /\ day.d[1] = s.end[1] => ~(s.end[2] < day.d[2])
      /\ (day.d[1] = s.end[1] /\ day.d[2] = s.end[2]) => ~(s.end[3] < day.d[3])
      /\ s.cat = Str(All) \/ Cell(df, r, KCategoria) = s.cat
      /\ s.tipo = All \/ Cell(df, r, KTipo) = Str(s.tipo)
Meeting == {r \in 1..NRows(df) : Meets(r)}
NthMeeting(i) == CHOOSE r \in Meeting : Cardinality({k \in Meeting : k <= r}) = i

\* C9: the filtered frame holds exactly the rows whose date lies in
\* [start, end] and that have the chosen category and type when one is chosen,
\* in their order and as they are; the adjusted frame is left as it was; a row
\* with the missing date is in no filtered frame.
C9_FilterSelects ==
  pc = "done" =>
    /\ df_filtered.columns = df.columns
    /\ Len(df_filtered.rows) = Cardinality(Meeting)
    /\ \A i \in 1..Len(df_filtered.rows) : df_filtered.rows[i] = df.rows[NthMeeting(i)]
    /\ \A i \in 1..Len(df_filtered.rows) : df_filtered.rows[i][ColIdx(df, KData)] # NaT
    /\ df = AdjustSign(canon)

\* a category and a type are chosen, a row dated on the last day of the
\* interval is kept and a row with the missing date is dropped
C9_Witness ==
  /\ pc = "done"
  /\ sel[1].cat # Str(All) /\ sel[1].tipo # All
  /\ sel[1].start # sel[1].end
  /\ \E i \in 1..Len(df_filtered.rows) :
       df_filtered.rows[i][ColIdx(df, KData)] = [t |-> "date", d |-> sel[1].end]
  /\ \E r \in 1..NRows(df) : Cell(df, r, KData) = NaT

\* C10: a PDF whose scan gives no record is handed to parse_csv as a frame
\* without columns and stops on the missing column 'data'; a PDF whose scan
\* gives a record is never stopped by parse_csv.
C10_EmptyPdfStops ==
  (kind = "pdf" /\ AfterParseCsv) =>
    /\ records = <<>> => pc = "stopped" /\ msg = KData /\ df_in.columns = <<>>
    /\ records # <<>> => pc # "stopped" /\ Len(df_in.columns) = 5

\* amount lines before any date line and a malformed numeral: no record, stopped
C10_Witness ==
  /\ kind = "pdf" /\ pc = "stopped" /\ records = <<>>
  /\ Len(text) >= 3
  /\ IsAmountLine(LineAt(1))
  /\ \E j \in 1..Len(text) : LineAt(j) \in MalformedLines
  /\ \E j \in 1..Len(text) : DateShape(LineAt(j))

====
